---- MODULE Spec2Model ----
(***************************************************************************)
(* Model of test-fixtures/bandit-issues.py.                                *)
(*                                                                         *)
(* The module is modelled after it has been imported: its two module-level *)
(* constants are bound and its functions are defined.  A caller invokes    *)
(* the functions one after the other, in any order and with any argument   *)
(* of a small set.  Every call a function makes to code outside the file   *)
(* (a library call, an in-function import, a call of a name the caller can *)
(* fail, such as process) either completes or raises; what is raised is    *)
(* either an Exception or a BaseException that is no Exception             *)
(* (KeyboardInterrupt, SystemExit).                                        *)
(*                                                                         *)
(* A second part reads the file as text, the way a rule-per-label scanner  *)
(* does: one line at a time, counting the code sites of each labelled rule.*)
(***************************************************************************)
EXTENDS Naturals, Sequences, FiniteSets

VARIABLES
    PASSWORD,    \* module-level name PASSWORD (line 38)
    API_KEY,     \* module-level name API_KEY (line 39)
    optimized,   \* TRUE when the file is compiled to optimized code (python -O)
    dyn,         \* the functions called so far among those that hand the caller's
                 \* text to an interpreter: exec_usage, eval_usage, unsafe_yaml
    pc,          \* "idle" between calls, "loop" inside continue_on_error's for loop
    fn,          \* the function of the current (or last) invocation
    arg,         \* its string argument, None when it takes none
    items,       \* the list given to continue_on_error
    i,           \* position of the for loop in items (1-based, next item to take)
    attempts,    \* the items process was called with, in call order
    ext,         \* the outside calls issued by the invocation, in order
    raised,      \* what those calls raised, in order: [at, exc], at the position
                 \* in ext of the call that raised
    result,      \* how the invocation ended: [kind, value]
    line,        \* the scanner: number of lines of the file read so far
    found        \* the scanner: rule id -> number of code sites found for it

progVars == <<PASSWORD, API_KEY, optimized, dyn, pc, fn, arg, items, i,
              attempts, ext, raised, result>>
vars == <<PASSWORD, API_KEY, optimized, dyn, pc, fn, arg, items, i,
          attempts, ext, raised, result, line, found>>

(***************************************************************************)
(* Bounds of the model.                                                    *)
(***************************************************************************)
MaxItems == 3        \* longest list given to continue_on_error

None == "None"

\* The items of a list: two values, enough to tell an order and a repetition.
ItemValues == {"a", "b"}

RECURSIVE SeqsUpTo(_)
SeqsUpTo(n) ==
    IF n = 0 THEN {<<>>}
    ELSE LET shorter == SeqsUpTo(n - 1)
         IN shorter \cup {Append(s, v) : s \in {t \in shorter : Len(t) = n - 1},
                                         v \in ItemValues}

ItemLists == SeqsUpTo(MaxItems)

\* Arguments a caller passes where the file takes a value: None, a falsy
\* value that is not None, and an ordinary string.
Values == {None, "", "abc"}

\* The str arguments among them.
Strings == Values \ {None}

\* What a call can raise.
Exc == {"Exception", "BaseException"}

Returned(v) == [kind |-> "return", value |-> v]
Raise(e) == [kind |-> "raise", value |-> e]
Running == [kind |-> "running", value |-> None]

(***************************************************************************)
(* The functions whose body is a straight line of statements.  ops is the  *)
(* sequence of calls the body makes to code outside the file, in execution *)
(* order (an import statement inside a body is one of them); ret is what   *)
(* the body returns when every call completes (None when it has no return  *)
(* statement, otherwise a token for the value of the returned expression). *)
(***************************************************************************)
Body(o, r) == [ops |-> o, ret |-> r]

bad_permissions == Body(<<"os.chmod">>, None)
bind_all_interfaces == Body(<<"import socket", "socket.socket", "socket.bind">>, None)
login == Body(<<>>, None)
risky_operation == Body(<<>>, None)
process == Body(<<>>, None)
unsafe_pickle == Body(<<"pickle.loads">>, None)
weak_hash == Body(<<"str.encode", "hashlib.md5", "hexdigest">>, "<md5 hexdigest>")
weak_cipher == Body(<<"from Crypto.Cipher import DES", "DES.new">>, None)
insecure_cipher_mode == Body(<<"from Crypto.Cipher import AES", "AES.new">>, None)
insecure_temp == Body(<<"tempfile.mktemp">>, "<filename>")
url_open == Body(<<"import urllib.request", "urllib.request.urlopen">>, "<response>")
insecure_random == Body(<<"random.randint">>, "<token_N>")
use_telnet == Body(<<"import telnetlib", "telnetlib.Telnet">>, None)
parse_xml == Body(<<"import xml.etree.ElementTree", "ET.fromstring">>, "<element>")
use_ftp == Body(<<"import ftplib", "ftplib.FTP">>, None)
insecure_ssl == Body(<<"ssl._create_unverified_context">>, "<context>")
more_weak_hashes ==
    Body(<<"hashlib.new", "hashlib.new", "str.encode", "h1.update", "h1.hexdigest">>,
         "<md5 hexdigest>")
insecure_request == Body(<<"import requests", "requests.get">>, None)
ssh_command ==
    Body(<<"import paramiko", "paramiko.SSHClient", "paramiko.AutoAddPolicy",
           "client.set_missing_host_key_policy", "client.connect">>, None)
shell_injection_retry == Body(<<"subprocess.Popen", "subprocess.Popen">>, None)
shell_injection == Body(<<"subprocess.Popen">>, None)
subprocess_call == Body(<<"subprocess.call">>, None)
os_system_call == Body(<<"os.system">>, None)
popen_shell == Body(<<"os.popen">>, None)
partial_path_exec == Body(<<"subprocess.call">>, None)
sql_injection == Body(<<"str.__add__">>, "<query>")
wildcard_injection == Body(<<"subprocess.call">>, None)
jinja_template == Body(<<"from jinja2 import Environment", "Environment">>, None)
mako_template == Body(<<"from mako.template import Template", "Template">>, None)

\* The straight-line functions that take no argument the model tracks.
NoArgFns ==
    {"bad_permissions", "bind_all_interfaces", "login", "risky_operation",
     "unsafe_pickle", "weak_cipher", "insecure_cipher_mode", "insecure_temp",
     "insecure_random", "use_telnet", "use_ftp", "insecure_ssl",
     "insecure_request", "ssh_command", "partial_path_exec",
     "wildcard_injection", "jinja_template", "mako_template"}

\* The straight-line functions that take one argument and pass it on.
OneArgFns ==
    {"process", "weak_hash", "url_open", "parse_xml", "more_weak_hashes",
     "shell_injection", "subprocess_call", "os_system_call",
     "popen_shell", "sql_injection"}

StraightFns == NoArgFns \cup OneArgFns

BodyOf(f) ==
    CASE f = "bad_permissions" -> bad_permissions
      [] f = "bind_all_interfaces" -> bind_all_interfaces
      [] f = "login" -> login
      [] f = "risky_operation" -> risky_operation
      [] f = "process" -> process
      [] f = "unsafe_pickle" -> unsafe_pickle
      [] f = "weak_hash" -> weak_hash
      [] f = "weak_cipher" -> weak_cipher
      [] f = "insecure_cipher_mode" -> insecure_cipher_mode
      [] f = "insecure_temp" -> insecure_temp
      [] f = "url_open" -> url_open
      [] f = "insecure_random" -> insecure_random
      [] f = "use_telnet" -> use_telnet
      [] f = "parse_xml" -> parse_xml
      [] f = "use_ftp" -> use_ftp
      [] f = "insecure_ssl" -> insecure_ssl
      [] f = "more_weak_hashes" -> more_weak_hashes
      [] f = "insecure_request" -> insecure_request
      [] f = "ssh_command" -> ssh_command
      [] f = "shell_injection" -> shell_injection
      [] f = "subprocess_call" -> subprocess_call
      [] f = "os_system_call" -> os_system_call
      [] f = "popen_shell" -> popen_shell
      [] f = "partial_path_exec" -> partial_path_exec
      [] f = "sql_injection" -> sql_injection
      [] f = "wildcard_injection" -> wildcard_injection
      [] f = "jinja_template" -> jinja_template
      [] f = "mako_template" -> mako_template

\* The ways a straight line of calls can run: all of them complete, or the
\* k-th raises e and none after it is issued.
Outcomes(ops) ==
    {[ext |-> ops, exc |-> "none"]}
    \cup {[ext |-> SubSeq(ops, 1, k), exc |-> e] : k \in 1..Len(ops), e \in Exc}

RaisedAt(k, e) == [at |-> k, exc |-> e]

RaisedBy(o) == IF o.exc = "none" THEN <<>> ELSE <<RaisedAt(Len(o.ext), o.exc)>>

(***************************************************************************)
(* The file as a scanner reads it.                                         *)
(***************************************************************************)
NumLines == 228

\* The label comments: line -> the rule identifiers the comment names.
Labels ==
    [l \in 1..NumLines |->
       CASE l = 14 -> {"B101"}
         [] l = 20 -> {"B102"}
         [] l = 25 -> {"B103"}
         [] l = 30 -> {"B104"}
         [] l = 37 -> {"B105", "B106", "B107"}
         [] l = 50 -> {"B108"}
         [] l = 56 -> {"B110"}
         [] l = 68 -> {"B112"}
         [] l = 81 -> {"B201"}
         [] l = 82 -> {"B301"}
         [] l = 87 -> {"B303"}
         [] l = 92 -> {"B304"}
         [] l = 99 -> {"B305"}
         [] l = 106 -> {"B306"}
         [] l = 112 -> {"B307"}
         [] l = 117 -> {"B308"}
         [] l = 118 -> {"B310"}
         [] l = 124 -> {"B311"}
         [] l = 130 -> {"B312"}
         [] l = 136 -> {"B320", "B410"}
         [] l = 142 -> {"B321"}
         [] l = 148 -> {"B323"}
         [] l = 154 -> {"B324"}
         [] l = 162 -> {"B501"}
         [] l = 168 -> {"B506"}
         [] l = 174 -> {"B601"}
         [] l = 182 -> {"B602"}
         [] l = 187 -> {"B603"}
         [] l = 192 -> {"B604"}
         [] l = 197 -> {"B605"}
         [] l = 202 -> {"B607"}
         [] l = 207 -> {"B608"}
         [] l = 213 -> {"B609"}
         [] l = 218 -> {"B610", "B611"}
         [] l = 219 -> {"B701"}
         [] l = 225 -> {"B702"}
         [] OTHER -> {}]

RuleIds == UNION {Labels[l] : l \in 1..NumLines}

\* The code sites: line -> the labelled rules whose anti-pattern the
\* statement on that line exhibits (the pattern is the one the label names).
Sites ==
    [l \in 1..NumLines |->
       CASE l = 16 -> {"B101"}           \* assert
         [] l = 22 -> {"B102"}           \* exec(...)
         [] l = 27 -> {"B103", "B108"}   \* os.chmod(..., 0o777) on a "/tmp/..." path
         [] l = 34 -> {"B104"}           \* bind(("0.0.0.0", ...))
         [] l = 38 -> {"B105"}           \* PASSWORD = "..."
         [] l = 39 -> {"B105"}           \* API_KEY = "..."
         [] l = 42 -> {"B107"}           \* password="admin123" default
         [] l = 46 -> {"B107"}           \* passwd="default_pass" default
         [] l = 52 -> {"B108"}           \* open("/tmp/data.txt")
         [] l = 60 -> {"B110"}           \* except Exception: pass
         [] l = 73 -> {"B112"}           \* except Exception: continue
         [] l = 84 -> {"B301"}           \* pickle.loads
         [] l = 89 -> {"B303"}           \* hashlib.md5
         [] l = 96 -> {"B304", "B305"}   \* DES.new(key, DES.MODE_ECB)
         [] l = 103 -> {"B305"}          \* AES.new(key, AES.MODE_ECB)
         [] l = 108 -> {"B306"}          \* tempfile.mktemp
         [] l = 114 -> {"B307"}          \* eval(...)
         [] l = 121 -> {"B310"}          \* urllib.request.urlopen
         [] l = 126 -> {"B311"}          \* random.randint
         [] l = 133 -> {"B312"}          \* telnetlib.Telnet
         [] l = 138 -> {"B410"}          \* import of the xml parser
         [] l = 139 -> {"B320"}          \* ET.fromstring
         [] l = 145 -> {"B321"}          \* ftplib.FTP
         [] l = 150 -> {"B323"}          \* ssl._create_unverified_context
         [] l = 156 -> {"B324"}          \* hashlib.new('md5')
         [] l = 157 -> {"B324"}          \* hashlib.new('sha1')
         [] l = 165 -> {"B501"}          \* requests.get(verify=False)
         [] l = 171 -> {"B506"}          \* yaml.load
         [] l = 179 -> {"B601", "B106"}  \* paramiko connect(password="toor")
         [] l = 184 -> {"B602"}          \* subprocess.Popen(shell=True)
         [] l = 189 -> {"B603"}          \* subprocess.call(cmd)
         [] l = 194 -> {"B604"}          \* os.system
         [] l = 199 -> {"B605"}          \* os.popen
         [] l = 204 -> {"B607", "B603"}  \* subprocess.call(["python", ...])
         [] l = 209 -> {"B608"}          \* "SELECT ..." + user_id
         [] l = 215 -> {"B609", "B602"}  \* subprocess.call("tar ... *", shell=True)
         [] l = 222 -> {"B701"}          \* Environment(autoescape=False)
         [] l = 228 -> {"B702"}          \* mako Template(...)
         [] OTHER -> {}]

(***************************************************************************)
(* Init: the module has been imported (lines 5-11, 38, 39 have run).       *)
(***************************************************************************)
InitPassword == "super_secret_password123"
InitApiKey == "sk-1234567890abcdef"

Init ==
    /\ PASSWORD = InitPassword
    /\ API_KEY = InitApiKey
    /\ optimized \in BOOLEAN
    /\ dyn = {}
    /\ pc = "idle"
    /\ fn = "none"
    /\ arg = None
    /\ items = <<>>
    /\ i = 1
    /\ attempts = <<>>
    /\ ext = <<>>
    /\ raised = <<>>
    /\ result = [kind |-> "none", value |-> None]
    /\ line = 0
    /\ found = [r \in RuleIds |-> 0]

\* What every call of a function other than continue_on_error leaves alone.
NoLoop == /\ pc' = "idle"
          /\ items' = <<>>
          /\ i' = 1
          /\ attempts' = <<>>

Frame == UNCHANGED <<PASSWORD, API_KEY, optimized, dyn, line, found>>

\* A call of a straight-line function: an exception of a call propagates.
CallStraight(f, a) ==
    /\ pc = "idle"
    /\ \E o \in Outcomes(BodyOf(f).ops) :
         /\ ext' = o.ext
         /\ raised' = RaisedBy(o)
         /\ result' = IF o.exc = "none" THEN Returned(BodyOf(f).ret) ELSE Raise(o.exc)
    /\ fn' = f
    /\ arg' = a
    /\ NoLoop
    /\ Frame

Straight ==
    \/ \E f \in NoArgFns : CallStraight(f, None)
    \/ \E f \in OneArgFns, a \in Strings : CallStraight(f, a)

\* assert_usage(user_input), lines 15-17.  The assert statement is compiled
\* away in optimized code.
assert_usage_truthy(user_input) ==
    /\ pc = "idle"
    /\ fn' = "assert_usage"
    /\ arg' = user_input
    /\ ext' = <<>>
    /\ raised' = <<>>
    /\ result' = IF ~optimized /\ user_input \in {None, ""}
                 THEN Raise("AssertionError: Input required")
                 ELSE Returned(user_input)
    /\ NoLoop
    /\ Frame

assert_usage(user_input) ==
    /\ pc = "idle"
    /\ fn' = "assert_usage"
    /\ arg' = user_input
    /\ ext' = <<>>
    /\ raised' = <<>>
    /\ result' = IF ~optimized /\ user_input = None
                 THEN Raise("AssertionError: Input required")
                 ELSE Returned(user_input)
    /\ NoLoop
    /\ Frame

\* connect_db(password="admin123"), lines 42-43: password is a parameter, a
\* local name of the function.
DefaultPassword == "admin123"

connect_db_global(password) ==
    /\ pc = "idle"
    /\ fn' = "connect_db"
    /\ arg' = password
    /\ ext' = <<>>
    /\ raised' = <<>>
    /\ PASSWORD' = password
    /\ result' = Returned("connecting with " \o password)
    /\ NoLoop
    /\ UNCHANGED <<API_KEY, optimized, dyn, line, found>>

connect_db(password) ==
    /\ pc = "idle"
    /\ fn' = "connect_db"
    /\ arg' = password
    /\ ext' = <<>>
    /\ raised' = <<>>
    /\ result' = Returned("connecting with " \o password)
    /\ NoLoop
    /\ Frame

\* use_tmp(), lines 51-53: the with statement closes the file when write
\* raises, and the exception propagates.
use_tmp ==
    /\ pc = "idle"
    /\ fn' = "use_tmp"
    /\ arg' = None
    /\ \E o \in Outcomes(<<"open", "f.write">>) :
         /\ ext' = IF Len(o.ext) = 2 THEN Append(o.ext, "f.close") ELSE o.ext
         /\ \/ raised' = RaisedBy(o) /\ result' = (IF o.exc = "none" THEN Returned(None) ELSE Raise(o.exc))
            \/ \* f.close raises in turn (leaving the with block)
               \E e \in Exc :
                 /\ Len(o.ext) = 2
                 /\ raised' = Append(RaisedBy(o), RaisedAt(3, e))
                 /\ result' = Raise(e)
    /\ NoLoop
    /\ Frame

ignore_errors_noexcept ==
    /\ pc = "idle"
    /\ fn' = "ignore_errors"
    /\ arg' = None
    /\ \E o \in Outcomes(<<"risky_operation">>) :
         /\ ext' = o.ext
         /\ raised' = RaisedBy(o)
         /\ result' = IF o.exc = "none" THEN Returned(None) ELSE Raise(o.exc)
    /\ NoLoop
    /\ Frame

\* ignore_errors(), lines 57-61.
ignore_errors ==
    /\ pc = "idle"
    /\ fn' = "ignore_errors"
    /\ arg' = None
    /\ \E o \in Outcomes(<<"risky_operation">>) :
         /\ ext' = o.ext
         /\ raised' = RaisedBy(o)
         /\ result' = IF o.exc = "BaseException" THEN Raise(o.exc) ELSE Returned(None)
    /\ NoLoop
    /\ Frame

\* The text a caller hands to exec_usage: statements.  exec runs them with
\* the module's globals and the function's locals, so a plain assignment
\* binds a local name and only a global declaration reaches the module.
CodeStrings ==
    {"pass",
     "PASSWORD = 'pwned'",
     "global PASSWORD; PASSWORD = 'pwned'",
     "global API_KEY; API_KEY = 'pwned'",
     "raise Exception()"}

\* The module names a text rebinds when it is run, as [name |-> value].
Rebinds(code) ==
    CASE code \in {"global PASSWORD; PASSWORD = 'pwned'",
                   "globals().update(PASSWORD='pwned')",
                   "!!python/object/apply:builtins.exec [\"global PASSWORD; PASSWORD = 'pwned'\"]"}
           -> [name |-> "PASSWORD", value |-> "pwned"]
      [] code = "global API_KEY; API_KEY = 'pwned'"
           -> [name |-> "API_KEY", value |-> "pwned"]
      [] OTHER -> [name |-> "none", value |-> None]

RunsCode(code) ==
    /\ PASSWORD' = IF Rebinds(code).name = "PASSWORD" THEN Rebinds(code).value ELSE PASSWORD
    /\ API_KEY' = IF Rebinds(code).name = "API_KEY" THEN Rebinds(code).value ELSE API_KEY

\* exec_usage(code_string), lines 21-22.
exec_usage(code_string) ==
    /\ pc = "idle"
    /\ fn' = "exec_usage"
    /\ arg' = code_string
    /\ dyn' = dyn \cup {"exec_usage"}
    /\ ext' = <<"exec">>
    /\ RunsCode(code_string)
    /\ IF code_string = "raise Exception()"
       THEN raised' = <<RaisedAt(1, "Exception")>> /\ result' = Raise("Exception")
       ELSE raised' = <<>> /\ result' = Returned(None)
    /\ NoLoop
    /\ UNCHANGED <<optimized, line, found>>

\* The text a caller hands to eval_usage: expressions.
Expressions == {"1 + 1", "PASSWORD", "globals().update(PASSWORD='pwned')", "1 / 0"}

EvalValue(e) ==
    CASE e = "1 + 1" -> "2"
      [] e = "PASSWORD" -> PASSWORD
      [] OTHER -> None

\* eval_usage(user_input), lines 113-114.
eval_usage(user_input) ==
    /\ pc = "idle"
    /\ fn' = "eval_usage"
    /\ arg' = user_input
    /\ dyn' = dyn \cup {"eval_usage"}
    /\ ext' = <<"eval">>
    /\ RunsCode(user_input)
    /\ IF user_input = "1 / 0"
       THEN raised' = <<RaisedAt(1, "Exception")>> /\ result' = Raise("Exception")
       ELSE raised' = <<>> /\ result' = Returned(EvalValue(user_input))
    /\ NoLoop
    /\ UNCHANGED <<optimized, line, found>>

\* The documents a caller hands to unsafe_yaml.
YamlDocs ==
    {"a: 1",
     "!!python/object/apply:builtins.exec [\"global PASSWORD; PASSWORD = 'pwned'\"]"}

\* unsafe_yaml(yaml_string), lines 169-171.  yaml.load is called without a
\* Loader.  What that does is the installed PyYAML's choice: it raises (no
\* PyYAML, or a release whose load requires the Loader argument), or it
\* loads the document with its default loader; where that loader is the
\* unsafe one, a python/object/apply tag calls the callable the document
\* names.
unsafe_yaml(yaml_string) ==
    /\ pc = "idle"
    /\ fn' = "unsafe_yaml"
    /\ arg' = yaml_string
    /\ dyn' = dyn \cup {"unsafe_yaml"}
    /\ \E o \in Outcomes(<<"import yaml", "yaml.load">>) :
         /\ ext' = o.ext
         /\ raised' = RaisedBy(o)
         /\ result' = IF o.exc = "none" THEN Returned("<document>") ELSE Raise(o.exc)
         /\ \/ UNCHANGED <<PASSWORD, API_KEY>>        \* safe default loader
            \/ o.exc = "none" /\ RunsCode(yaml_string) \* unsafe default loader
    /\ NoLoop
    /\ UNCHANGED <<optimized, line, found>>

(***************************************************************************)
(* continue_on_error(items), lines 69-74: one step per pass of the loop.   *)
(***************************************************************************)
\* The call: the for statement takes an iterator of the list.
continue_on_error(its) ==
    /\ pc = "idle"
    /\ pc' = "loop"
    /\ fn' = "continue_on_error"
    /\ arg' = None
    /\ items' = its
    /\ i' = 1
    /\ attempts' = <<>>
    /\ ext' = <<>>
    /\ raised' = <<>>
    /\ result' = Running
    /\ Frame

LoopPass_break ==
    /\ pc = "loop"
    /\ i <= Len(items)
    /\ attempts' = Append(attempts, items[i])
    /\ ext' = Append(ext, "process")
    /\ \E e \in {"none"} \cup Exc :
         /\ raised' = IF e = "none" THEN raised ELSE Append(raised, RaisedAt(Len(ext) + 1, e))
         /\ IF e = "BaseException"
            THEN /\ pc' = "idle"
                 /\ i' = i
                 /\ result' = Raise(e)
            ELSE IF e = "Exception"
            THEN /\ pc' = "idle"
                 /\ i' = i
                 /\ result' = Returned(None)
            ELSE /\ pc' = "loop"
                 /\ i' = i + 1
                 /\ result' = Running
    /\ UNCHANGED <<fn, arg, items>>
    /\ Frame

LoopPass_propagate ==
    /\ pc = "loop"
    /\ i <= Len(items)
    /\ attempts' = Append(attempts, items[i])
    /\ ext' = Append(ext, "process")
    /\ \E e \in {"none"} \cup Exc :
         /\ raised' = IF e = "none" THEN raised ELSE Append(raised, RaisedAt(Len(ext) + 1, e))
         /\ IF e \in Exc
            THEN /\ pc' = "idle"
                 /\ i' = i
                 /\ result' = Raise(e)
            ELSE /\ pc' = "loop"
                 /\ i' = i + 1
                 /\ result' = Running
    /\ UNCHANGED <<fn, arg, items>>
    /\ Frame

\* One pass: process(item) is called; an Exception it raises is caught and
\* the loop continues, anything else it raises leaves the function.
LoopPass ==
    /\ pc = "loop"
    /\ i <= Len(items)
    /\ attempts' = Append(attempts, items[i])
    /\ ext' = Append(ext, "process")
    /\ \E e \in {"none"} \cup Exc :
         /\ raised' = IF e = "none" THEN raised ELSE Append(raised, RaisedAt(Len(ext) + 1, e))
         /\ IF e = "BaseException"
            THEN /\ pc' = "idle"
                 /\ i' = i
                 /\ result' = Raise(e)
            ELSE /\ pc' = "loop"
                 /\ i' = i + 1
                 /\ result' = Running
    /\ UNCHANGED <<fn, arg, items>>
    /\ Frame

\* The iterator is exhausted: the function returns None.
LoopEnd ==
    /\ pc = "loop"
    /\ i > Len(items)
    /\ pc' = "idle"
    /\ result' = Returned(None)
    /\ UNCHANGED <<fn, arg, items, i, attempts, ext, raised>>
    /\ Frame

Next ==
    \/ Straight
    \/ \E v \in Values : assert_usage(v)
    \/ \E p \in {DefaultPassword, "hunter2"} : connect_db(p)
    \/ use_tmp
    \/ ignore_errors
    \/ \E c \in CodeStrings : exec_usage(c)
    \/ \E e \in Expressions : eval_usage(e)
    \/ \E d \in YamlDocs : unsafe_yaml(d)
    \/ \E its \in ItemLists : continue_on_error(its)
    \/ LoopPass
    \/ LoopEnd

Spec == Init /\ [][Next]_vars

\* The interpreter keeps running the loop it is in.
FairSpec == Spec /\ WF_vars(LoopPass) /\ WF_vars(LoopEnd)

(***************************************************************************)
(* The rule-per-label scanner: it reads the file one line at a time and    *)
(* reports, for each rule, one finding per code site of the rule's pattern.*)
(***************************************************************************)
ScanLine ==
    /\ line < NumLines
    /\ line' = line + 1
    /\ found' = [r \in RuleIds |->
                   IF r \in Sites[line + 1] THEN found[r] + 1 ELSE found[r]]
    /\ UNCHANGED progVars

ScanSpec == Init /\ [][ScanLine]_vars

(***************************************************************************)
(* Properties.                                                             *)
(***************************************************************************)
Count(seq, S) == Cardinality({k \in DOMAIN seq : seq[k] \in S})

Excs(rs) == {rs[k].exc : k \in DOMAIN rs}

\* C1: when the whole file has been scanned, every rule identifier named in
\* a label comment has exactly one finding, that is exactly one code site.
C1_OneSitePerLabel ==
    line = NumLines => \A r \in RuleIds : found[r] = 1

SingleShotFns ==
    {"bind_all_interfaces", "insecure_temp", "shell_injection",
     "subprocess_call", "partial_path_exec", "wildcard_injection"}

ExternalOps == {"socket.bind", "tempfile.mktemp", "subprocess.Popen", "subprocess.call"}

C3_SingleShot ==
    fn \in SingleShotFns => Count(ext, ExternalOps) <= 1

C3_Witness ==
    /\ fn = "shell_injection"
    /\ ext = <<"subprocess.Popen">>
    /\ result = Raise("Exception")

\* An invocation goes on, or has returned normally, although a call it made
\* raised.
Swallowed ==
    /\ raised # <<>>
    /\ \/ result.kind = "return"
       \/ pc = "loop"

IgnoreErrorsContract ==
    fn = "ignore_errors" =>
        /\ ext = <<"risky_operation">>
        /\ ("BaseException" \notin Excs(raised) => result = Returned(None))

\* C4 (as stated): ignore_errors calls risky_operation exactly once and
\* returns None whether that call returns or raises an Exception, and no
\* other function of the file swallows an error.
C4_OnlyIgnoreErrorsSwallows ==
    /\ IgnoreErrorsContract
    /\ Swallowed => fn = "ignore_errors"

\* C4 (amended): ignore_errors calls risky_operation exactly once and
\* returns None whether that call returns or raises an Exception, and the
\* only functions of the file that swallow an error are ignore_errors and
\* continue_on_error.
C4_IgnoreErrorsAmended ==
    /\ IgnoreErrorsContract
    /\ Swallowed => fn \in {"ignore_errors", "continue_on_error"}

C4_Witness ==
    /\ fn = "ignore_errors"
    /\ raised = <<RaisedAt(1, "Exception")>>
    /\ result = Returned(None)

\* C5: continue_on_error calls process on the items in list order, each
\* once, none skipped: inside the loop the calls made are exactly the items
\* before the loop position, and when no call raised anything but
\* Exceptions the function ends with one call per item.
C5_EveryItemOnceInOrder ==
    fn = "continue_on_error" =>
        /\ Len(attempts) <= Len(items)
        /\ attempts = SubSeq(items, 1, Len(attempts))
        /\ pc = "loop" => Len(attempts) = i - 1
        /\ (pc = "idle" /\ "BaseException" \notin Excs(raised)) => attempts = items

C5_Witness ==
    /\ fn = "continue_on_error"
    /\ pc = "idle"
    /\ Len(items) >= 2
    /\ items[1] # items[2]
    /\ raised # <<>>
    /\ raised[1] = RaisedAt(1, "Exception")
    /\ attempts = items

\* C6: once continue_on_error is in its loop it eventually ends, and it ends
\* by returning None unless a call raised something that is no Exception.
C6_Terminates ==
    (pc = "loop") ~> (/\ pc = "idle"
                      /\ fn = "continue_on_error"
                      /\ \/ result = Returned(None)
                         \/ /\ result = Raise("BaseException")
                            /\ "BaseException" \in Excs(raised))

C6_Witness ==
    /\ fn = "continue_on_error"
    /\ pc = "idle"
    /\ Len(items) >= 2
    /\ Len(raised) = Len(items)
    /\ Excs(raised) = {"Exception"}
    /\ result = Returned(None)

\* C7: assert_usage(x) returns x when x is not None; assert_usage(None) ends
\* in AssertionError('Input required') with assertions enabled and returns
\* None in optimized code.
C7_AssertUsage ==
    fn = "assert_usage" =>
        result = IF arg # None THEN Returned(arg)
                 ELSE IF optimized THEN Returned(None)
                 ELSE Raise("AssertionError: Input required")

C7_Witness ==
    /\ fn = "assert_usage"
    /\ arg = None
    /\ optimized
    /\ result = Returned(None)

====
